---- MODULE Spec2Model ----
(***************************************************************************)
(* Model of duden/search.py: the key sanitizer (sanitize_word), the       *)
(* response cache (cached_response.function_wrapper) and the three cached *)
(* fetchers (request_word, request_search, request_autocomplete).         *)
(*                                                                         *)
(* Text is a sequence of Unicode code points.  A cache entry is the file  *)
(* <cache dir>/<prefix><sanitized key>.gz; the store maps every file name *)
(* the model can address to the state of that file.                       *)
(***************************************************************************)
EXTENDS Integers, Sequences, FiniteSets, TLC

VARIABLES store, last, arg, ret

vars == <<store, last, arg, ret>>

(***************************************************************************)
(* Bounds.                                                                 *)
(***************************************************************************)
\* longest raw key handed to sanitize_word in SpecSanitize
MaxLen == 2

(***************************************************************************)
(* Text helpers.                                                           *)
(***************************************************************************)
\* all sequences over S of length at most n
StringsUpTo(S, n) == UNION {[1..m -> S] : m \in 0..n}

\* str(n) for a natural number: decimal digits, no leading zeros
RECURSIVE str(_)
str(n) == IF n < 10 THEN <<48 + n>> ELSE str(n \div 10) \o <<48 + (n % 10)>>

(***************************************************************************)
(* sanitize_word (search.py 24-37).                                        *)
(***************************************************************************)
ascii_letters == (65..90) \cup (97..122)

\* a sanitizer that also keeps the hyphen, itself safe in a file name
allowed_chars_hyphen == ascii_letters \cup {95, 45}

allowed_chars == ascii_letters \cup {95}

\* the common lossy sanitizer: every other character becomes an underscore
sanitize_char_lossy(char) == IF char \in allowed_chars THEN <<char>> ELSE <<95>>

\* the code point written without its closing hyphen
sanitize_char_open(char) ==
    IF char \in allowed_chars THEN <<char>> ELSE <<45, 117>> \o str(char)

sanitize_char(char) ==
    IF char \in allowed_chars THEN <<char>> ELSE <<45, 117>> \o str(char) \o <<45>>

RECURSIVE sanitize_word(_)
sanitize_word(word) ==
    IF word = <<>> THEN <<>>
    ELSE sanitize_char(Head(word)) \o sanitize_word(Tail(word))

(***************************************************************************)
(* Cache file names (search.py 46-49) and the three namespaces.            *)
(***************************************************************************)
\* ''
PrefixWord == <<>>
\* 'search-'
PrefixSearch == <<115, 101, 97, 114, 99, 104, 45>>
\* 'autocomplete-'
PrefixAutocomplete == <<97, 117, 116, 111, 99, 111, 109, 112, 108, 101, 116, 101, 45>>

Prefixes == {PrefixWord, PrefixSearch, PrefixAutocomplete}

\* '.gz'
Extension == <<46, 103, 122>>

\* a file name that leaves the namespace prefix out
filename_noprefix(prefix, cache_key) == sanitize_word(cache_key) \o Extension

filename(prefix, cache_key) == prefix \o sanitize_word(cache_key) \o Extension

(***************************************************************************)
(* Cache entries: the state of one file of the cache directory.            *)
(*   absent      no file                                                   *)
(*   gz          a complete gzip file holding text                         *)
(*   empty       a zero-length file (opened for writing, nothing flushed)  *)
(*   truncated   a gzip stream that ends before its end-of-stream marker   *)
(*   badgzip     not a gzip file, or a wrong checksum (gzip.BadGzipFile)   *)
(*   badstream   a gzip header followed by invalid deflate data            *)
(*   badutf8     a complete gzip file whose content is not UTF-8           *)
(*   unreadable  no permission on the file, or a directory in its place    *)
(***************************************************************************)
Entry(kind, text) == [kind |-> kind, text |-> text]

Absent == Entry("absent", <<>>)

DamageKinds == {"badgzip", "badstream", "badutf8", "unreadable"}

PartialKinds == {"empty", "truncated"}

\* os.linesep on the POSIX systems the XDG cache directory belongs to
linesep == <<10>>

\* text written through a text-mode file with newline=None: '\n' -> os.linesep
RECURSIVE text_write(_)
text_write(text) ==
    IF text = <<>> THEN <<>>
    ELSE (IF Head(text) = 10 THEN linesep ELSE <<Head(text)>>) \o text_write(Tail(text))

\* text read through a text-mode file with newline=None (universal newlines):
\* '\r\n' and '\r' both come back as '\n'
RECURSIVE text_read(_)
text_read(text) ==
    IF text = <<>> THEN <<>>
    ELSE IF Head(text) = 13
         THEN IF Len(text) >= 2 /\ text[2] = 10
              THEN <<10>> \o text_read(Tail(Tail(text)))
              ELSE <<10>> \o text_read(Tail(text))
         ELSE <<Head(text)>> \o text_read(Tail(text))

(***************************************************************************)
(* Outcomes of a call: text, None, a list (request_autocomplete's []), or  *)
(* a raised exception.                                                     *)
(***************************************************************************)
Outcome(kind, text, exc) == [kind |-> kind, text |-> text, exc |-> exc]

Text(t) == Outcome("text", t, "")

None == Outcome("none", <<>>, "")

EmptyList == Outcome("list", <<>>, "")

Raise(exc) == Outcome("raise", <<>>, exc)

(***************************************************************************)
(* The cache read of function_wrapper (search.py 54-58).                   *)
(***************************************************************************)
Hit(t) == [kind |-> "hit", text |-> t, exc |-> ""]

Miss == [kind |-> "miss", text |-> <<>>, exc |-> ""]

ReadRaise(exc) == [kind |-> "raise", text |-> <<>>, exc |-> exc]

\* gzip.open(full_path, 'rt', encoding='utf8').read() under
\* except (FileNotFoundError, IOError, EOFError)
read_cache(entry) ==
    CASE entry.kind = "gz"         -> Hit(text_read(entry.text))
      [] entry.kind = "empty"      -> Hit(<<>>)
      [] entry.kind = "absent"     -> Miss  \* FileNotFoundError
      [] entry.kind = "truncated"  -> Miss  \* EOFError
      [] entry.kind = "badgzip"    -> Miss  \* gzip.BadGzipFile, an OSError
      [] entry.kind = "unreadable" -> Miss  \* PermissionError, IsADirectoryError
      [] entry.kind = "badstream"  -> ReadRaise("zlib.error")
      [] entry.kind = "badutf8"    -> ReadRaise("UnicodeDecodeError")

(***************************************************************************)
(* The cache write of function_wrapper (search.py 62-64).                  *)
(***************************************************************************)
\* a wrapper that writes whatever the fetch returned
should_write_any(cache, result) == cache

\* a wrapper that writes a present result with the cache switched off too
should_write_always(cache, result) == result.kind # "none"

should_write(cache, result) == cache /\ result.kind # "none"

\* gzip.open(full_path, 'wt') then f.write(result): the file is created (or
\* truncated) by the open; f.write of a value that is no str raises TypeError
\* and the with block closes the file, leaving a complete gzip file of ''.
write_cache(entry, result) ==
    IF entry.kind = "unreadable"
    THEN [entry |-> entry, raised |-> TRUE, exc |-> "OSError"]
    ELSE IF result.kind = "text"
    THEN [entry |-> Entry("gz", text_write(result.text)), raised |-> FALSE, exc |-> ""]
    ELSE [entry |-> Entry("gz", <<>>), raised |-> TRUE, exc |-> "TypeError"]

(***************************************************************************)
(* HTTP: what requests.get hands a fetcher.                                *)
(***************************************************************************)
\* the bodies a response carries: 'x' and 'x\r\n'
Bodies == {<<120>>, <<120, 13, 10>>}

Statuses == {200, 404, 500}

Response(connected, status, body) ==
    [connected |-> connected, status |-> status, body |-> body]

\* requests.get raised requests.exceptions.ConnectionError
ConnectionFailed == Response(FALSE, 0, <<>>)

Responses == {Response(TRUE, s, b) : s \in Statuses, b \in Bodies} \cup {ConnectionFailed}

\* Response.raise_for_status(): raises HTTPError for 4xx and 5xx
raises_for_status(status) == 400 <= status /\ status < 600

\* Response.ok: raise_for_status() does not raise
ok(status) == ~raises_for_status(status)

(***************************************************************************)
(* The undecorated fetchers.                                               *)
(***************************************************************************)
\* a word-page fetch that takes every error status for an absent page
request_word_func_absent(resp) ==
    IF ~resp.connected THEN Raise("Exception")
    ELSE IF raises_for_status(resp.status) THEN None
    ELSE Text(resp.body)

\* request_word (search.py 73-88)
request_word_func(resp) ==
    IF ~resp.connected THEN Raise("Exception")
    ELSE IF resp.status = 404 THEN None
    ELSE IF raises_for_status(resp.status) THEN Raise("HTTPError")
    ELSE Text(resp.body)

\* a search-page fetch that checks the status the way the word-page fetch does
request_search_func_checked(resp) ==
    IF ~resp.connected THEN Raise("ConnectionError")
    ELSE IF raises_for_status(resp.status) THEN Raise("HTTPError")
    ELSE Text(resp.body)

\* request_search (search.py 124-129)
request_search_func(resp) ==
    IF ~resp.connected THEN Raise("ConnectionError")
    ELSE Text(resp.body)

\* request_autocomplete (search.py 132-141)
request_autocomplete_func(resp) ==
    IF ~resp.connected THEN Raise("ConnectionError")
    ELSE IF ok(resp.status) THEN Text(resp.body)
    ELSE EmptyList

FetchOps == {"request_word", "request_search", "request_autocomplete"}

\* func(cache_key, **kwargs) (search.py 60), func being the decorated function
call_func(func, resp) ==
    CASE func = "request_word"         -> request_word_func(resp)
      [] func = "request_search"       -> request_search_func(resp)
      [] func = "request_autocomplete" -> request_autocomplete_func(resp)

(***************************************************************************)
(* cached_response(prefix)(func) = function_wrapper (search.py 46-66).     *)
(* Returns the store after the call, what the call returned or raised, the *)
(* number of times func was invoked, and whether the cache was read.       *)
(***************************************************************************)
Called(st, out, fetches, rd) ==
    [store |-> st, out |-> out, fetches |-> fetches, read |-> rd]

\* a wrapper that opens the entry file for writing before it calls the fetch
\* function, so that a failing fetch leaves the opened file behind
function_wrapper_open_first(st, prefix, func, cache_key, cache, resp) ==
    LET full_path == filename(prefix, cache_key)
        rd == IF cache THEN read_cache(st[full_path]) ELSE Miss
    IN  IF rd.kind = "hit" THEN Called(st, Text(rd.text), 0, TRUE)
        ELSE IF rd.kind = "raise" THEN Called(st, Raise(rd.exc), 0, TRUE)
        ELSE LET result == call_func(func, resp)
             IN  IF result.kind = "raise"
                 THEN Called(IF cache THEN [st EXCEPT ![full_path] = Entry("empty", <<>>)]
                                      ELSE st, result, 1, cache)
                 ELSE IF should_write(cache, result)
                 THEN LET w == write_cache(st[full_path], result)
                      IN  Called([st EXCEPT ![full_path] = w.entry],
                                 IF w.raised THEN Raise(w.exc) ELSE result, 1, cache)
                 ELSE Called(st, result, 1, cache)

function_wrapper(st, prefix, func, cache_key, cache, resp) ==
    LET full_path == filename(prefix, cache_key)
        rd == IF cache THEN read_cache(st[full_path]) ELSE Miss
    IN  IF rd.kind = "hit" THEN Called(st, Text(rd.text), 0, TRUE)
        ELSE IF rd.kind = "raise" THEN Called(st, Raise(rd.exc), 0, TRUE)
        ELSE LET result == call_func(func, resp)
             IN  IF result.kind = "raise" THEN Called(st, result, 1, cache)
                 ELSE IF should_write(cache, result)
                 THEN LET w == write_cache(st[full_path], result)
                      IN  Called([st EXCEPT ![full_path] = w.entry],
                                 IF w.raised THEN Raise(w.exc) ELSE result, 1, cache)
                 ELSE Called(st, result, 1, cache)

(***************************************************************************)
(* State.                                                                  *)
(*   store  the cache directory: file name -> entry                        *)
(*   last   the last call made: its arguments, the response the fetch saw  *)
(*          (when it was invoked) and the outcome                          *)
(*   arg, ret   input and result of a pure function under check            *)
(***************************************************************************)
\* the words looked up: 'a' and U+00E4
Keys == {<<97>>, <<228>>}

\* the terms searched for: 'a'
Terms == {<<97>>}

\* the (prefix, key) pairs the calls of the model address
Addresses ==
    ({PrefixWord} \X Keys) \cup ({PrefixSearch, PrefixAutocomplete} \X Terms)

FileNames == {filename(a[1], a[2]) : a \in Addresses}

NoCall ==
    [op |-> "none", prefix |-> <<>>, key |-> <<>>, cache |-> FALSE,
     status |-> 0, fetches |-> 0, read |-> FALSE, out |-> None]

NotYet == [done |-> FALSE, word |-> <<>>, file |-> <<>>]

Init ==
    /\ store = [f \in FileNames |-> Absent]
    /\ last = NoCall
    /\ arg = [prefix |-> <<>>, key |-> <<>>]
    /\ ret = NotYet

\* what the network may answer to a call: any response when the fetch is
\* invoked, and nothing (no request is made) when the cache read settles the call
Answers(prefix, key, cache) ==
    IF cache /\ read_cache(store[filename(prefix, key)]).kind # "miss"
    THEN {ConnectionFailed}
    ELSE Responses

\* the record of one call of a cached fetcher
CallRecord(op, prefix, key, cache, resp, r) ==
    [op |-> op, prefix |-> prefix, key |-> key, cache |-> cache,
     status |-> resp.status, fetches |-> r.fetches, read |-> r.read, out |-> r.out]

\* request_word(word, cache=...) (search.py 72-88)
request_word ==
    \E key \in Keys, cache \in BOOLEAN :
        \E resp \in Answers(PrefixWord, key, cache) :
            \E r \in {function_wrapper(store, PrefixWord, "request_word",
                                       key, cache, resp)} :
                /\ store' = r.store
                /\ last' = CallRecord("request_word", PrefixWord, key, cache, resp, r)
                /\ UNCHANGED <<arg, ret>>

\* request_search(word, cache=...) (search.py 123-129)
request_search ==
    \E key \in Terms, cache \in BOOLEAN :
        \E resp \in Answers(PrefixSearch, key, cache) :
            \E r \in {function_wrapper(store, PrefixSearch, "request_search",
                                       key, cache, resp)} :
                /\ store' = r.store
                /\ last' = CallRecord("request_search", PrefixSearch, key, cache, resp, r)
                /\ UNCHANGED <<arg, ret>>

\* request_autocomplete(word, cache=...) (search.py 131-141)
request_autocomplete ==
    \E key \in Terms, cache \in BOOLEAN :
        \E resp \in Answers(PrefixAutocomplete, key, cache) :
            \E r \in {function_wrapper(store, PrefixAutocomplete,
                                       "request_autocomplete", key, cache, resp)} :
                /\ store' = r.store
                /\ last' = CallRecord("request_autocomplete", PrefixAutocomplete,
                                      key, cache, resp, r)
                /\ UNCHANGED <<arg, ret>>

Next == request_word \/ request_search \/ request_autocomplete

Spec == Init /\ [][Next]_vars

(***************************************************************************)
(* The cache directory under faults: entries damaged from outside the     *)
(* program, and cache writes cut off by the death of the writing process.  *)
(***************************************************************************)
\* at most this many entries are damaged or partial at a time
MaxDamaged == 1

Damaged == {f \in FileNames : store[f].kind \notin {"absent", "gz"}}

\* the file of an entry is damaged, replaced or made inaccessible; this is
\* what the except clause of the cache read (search.py 57) provides for
damage ==
    \E f \in FileNames, kind \in DamageKinds :
        /\ Cardinality(Damaged \cup {f}) <= MaxDamaged
        /\ store' = [store EXCEPT ![f] = Entry(kind, <<>>)]
        /\ last' = [NoCall EXCEPT !.op = "damage"]
        /\ UNCHANGED <<arg, ret>>

\* a cached call that dies inside "with gzip.open(full_path, 'wt')"
\* (search.py 63-64): the file exists, with nothing or a part of the stream
InterruptedWrite(op, prefix) ==
    \E key \in {a[2] : a \in {b \in Addresses : b[1] = prefix}}, resp \in Responses, kind \in PartialKinds :
        \E f \in {filename(prefix, key)} :
            /\ read_cache(store[f]).kind = "miss"
            /\ call_func(op, resp).kind # "raise"
            /\ should_write(TRUE, call_func(op, resp))
            /\ store[f].kind # "unreadable"
            /\ Cardinality(Damaged \cup {f}) <= MaxDamaged
            /\ store' = [store EXCEPT ![f] = Entry(kind, <<>>)]
            /\ last' = [op |-> op, prefix |-> prefix, key |-> key, cache |-> TRUE,
                        status |-> resp.status, fetches |-> 1, read |-> TRUE,
                        out |-> Raise("killed")]
            /\ UNCHANGED <<arg, ret>>

interrupted_write ==
    \/ InterruptedWrite("request_word", PrefixWord)
    \/ InterruptedWrite("request_search", PrefixSearch)
    \/ InterruptedWrite("request_autocomplete", PrefixAutocomplete)

NextFaults == Next \/ damage \/ interrupted_write

SpecFaults == Init /\ [][NextFaults]_vars

(***************************************************************************)
(* sanitize_word and the file name, applied to one input.                  *)
(***************************************************************************)
\* 'u', '_', '4', '-', '!' and U+00E4: a letter, the underscore, a digit, the
\* hyphen, other punctuation and a non-ASCII character
SanChars == {117, 95, 52, 45, 33, 228}

Words == StringsUpTo(SanChars, MaxLen)

\* raw keys: the words, and the words behind the text of a namespace prefix
SanInputs == {h \o w : h \in Prefixes, w \in Words}

InitSanitize ==
    /\ store = [f \in FileNames |-> Absent]
    /\ last = NoCall
    /\ arg \in [prefix : Prefixes, key : SanInputs]
    /\ ret = NotYet

\* filename = prefix + sanitize_word(cache_key) + '.gz' (search.py 48)
do_sanitize ==
    /\ ~ret.done
    /\ ret' = [done |-> TRUE, word |-> sanitize_word(arg.key),
               file |-> filename(arg.prefix, arg.key)]
    /\ UNCHANGED <<store, last, arg>>

SpecSanitize == InitSanitize /\ [][do_sanitize]_vars

(***************************************************************************)
(* The undecorated fetchers, applied to one response.                      *)
(***************************************************************************)
FetchStatuses == {200, 201, 204, 304, 400, 403, 404, 410, 500, 503}

FetchResponses ==
    {Response(TRUE, s, b) : s \in FetchStatuses, b \in Bodies} \cup {ConnectionFailed}

NotFetched == [done |-> FALSE, out |-> None]

InitFetch ==
    /\ store = [f \in FileNames |-> Absent]
    /\ last = NoCall
    /\ arg \in [op : FetchOps, resp : FetchResponses]
    /\ ret = NotFetched

\* func(cache_key, **kwargs) (search.py 60)
do_fetch ==
    /\ ~ret.done
    /\ ret' = [done |-> TRUE, out |-> call_func(arg.op, arg.resp)]
    /\ UNCHANGED <<store, last, arg>>

SpecFetch == InitFetch /\ [][do_fetch]_vars

(***************************************************************************)
(* Claims about sanitize_word and the file name (SpecSanitize).            *)
(***************************************************************************)
\* every raw key with its sanitized form, every address with its file name
Sanitized == {<<w, sanitize_word(w)>> : w \in SanInputs}

FileOf == {<<p, k, filename(p, k)>> : p \in Prefixes, k \in SanInputs}

\* C6: sanitization is injective: no raw key other than the one sanitized has
\* the same sanitized form.
C6_SanitizeInjective ==
    ret.done => \A b \in Sanitized : b[1] # arg.key => b[2] # ret.word

\* a key mixing kept and replaced characters has been sanitized
C6_Witness ==
    /\ ret.done
    /\ \E i, j \in 1..Len(arg.key) :
           arg.key[i] \in allowed_chars /\ arg.key[j] \notin allowed_chars

\* C7: no two distinct (prefix, raw key) pairs of the three namespaces share a
\* cache file name.
C7_NoCollision ==
    ret.done =>
        \A a \in FileOf :
            (a[1] # arg.prefix \/ a[2] # arg.key) => a[3] # ret.file

\* a word-page key that starts with 'search-' has been given its file name
C7_Witness ==
    /\ ret.done
    /\ arg.prefix = PrefixWord
    /\ \E w \in Words : w # <<>> /\ arg.key = PrefixSearch \o w

Digits == 48..57

\* the number of decimal digits of n, by magnitude
Width(n) ==
    IF n < 10 THEN 1 ELSE IF n < 100 THEN 2 ELSE IF n < 1000 THEN 3
    ELSE IF n < 10000 THEN 4 ELSE IF n < 100000 THEN 5 ELSE IF n < 1000000 THEN 6
    ELSE 7

RECURSIVE ExpectedLen(_)
ExpectedLen(word) ==
    IF word = <<>> THEN 0
    ELSE (IF Head(word) \in (65..90) \cup (97..122) \cup {95} THEN 1
          ELSE 3 + Width(Head(word)))
         + ExpectedLen(Tail(word))

\* the length of the run of digits that s starts with
RECURSIVE DigitRun(_)
DigitRun(s) ==
    IF s # <<>> /\ Head(s) \in Digits THEN 1 + DigitRun(Tail(s)) ELSE 0

\* the number a sequence of digits writes
RECURSIVE Value(_)
Value(ds) ==
    IF ds = <<>> THEN 0 ELSE 10 * Value(SubSeq(ds, 1, Len(ds) - 1)) + (ds[Len(ds)] - 48)

\* reads a sanitized string back: a letter or underscore stands for itself,
\* '-u<digits>-' (no leading zero) for the code point it writes; anything else
\* is malformed (-1)
RECURSIVE Decode(_)
Decode(s) ==
    IF s = <<>> THEN <<>>
    ELSE IF Head(s) \in (65..90) \cup (97..122) \cup {95}
    THEN <<Head(s)>> \o Decode(Tail(s))
    ELSE IF Len(s) >= 4 /\ s[1] = 45 /\ s[2] = 117
    THEN LET n == DigitRun(SubSeq(s, 3, Len(s)))
         IN  IF /\ n >= 1
                /\ Len(s) >= 3 + n
                /\ s[3 + n] = 45
                /\ (n > 1 => s[3] # 48)
             THEN <<Value(SubSeq(s, 3, 2 + n))>> \o Decode(SubSeq(s, 4 + n, Len(s)))
             ELSE <<-1>>
    ELSE <<-1>>

\* C8: sanitize_word maps character by character: letters and underscore
\* are kept, every other character becomes '-u<decimal code point>-'; the
\* output holds only letters, underscore, digits and hyphens, and '' maps to ''.
C8_CharMap ==
    ret.done =>
        /\ Decode(ret.word) = arg.key
        /\ Len(ret.word) = ExpectedLen(arg.key)
        /\ \A i \in 1..Len(ret.word) :
               ret.word[i] \in (65..90) \cup (97..122) \cup {95, 45} \cup Digits
        /\ (arg.key = <<>> => ret.word = <<>>)

\* a key holding a digit and a hyphen has been sanitized
C8_Witness ==
    /\ ret.done
    /\ arg.key = <<52, 45>>
    /\ ret.word = <<45, 117, 53, 50, 45, 45, 117, 52, 53, 45>>

(***************************************************************************)
(* Claims about the undecorated fetchers (SpecFetch).                      *)
(***************************************************************************)
\* C10 as stated: the word-page fetch returns the text on 200, the absence
\* marker on 404, and raises on every other status.
C10_Original ==
    (ret.done /\ arg.op = "request_word" /\ arg.resp.connected) =>
        IF arg.resp.status = 200 THEN ret.out = Text(arg.resp.body)
        ELSE IF arg.resp.status = 404 THEN ret.out = None
        ELSE ret.out.kind = "raise"

\* C10 amended: the word-page fetch returns the absence marker on 404, raises
\* on every other status from 400 to 599, and returns the response text on
\* every other status, 200 among them.
C10_StatusRule ==
    (ret.done /\ arg.op = "request_word" /\ arg.resp.connected) =>
        IF arg.resp.status = 404 THEN ret.out = None
        ELSE IF arg.resp.status \in 400..599 THEN ret.out = Raise("HTTPError")
        ELSE ret.out = Text(arg.resp.body)

\* the word-page fetch has answered a 204 with the text of the response
C10_Witness ==
    /\ ret.done
    /\ arg.op = "request_word"
    /\ arg.resp.status = 204
    /\ ret.out = Text(arg.resp.body)

(***************************************************************************)
(* Claims about the response cache (Spec, SpecFaults).  `last' is the      *)
(* record of the call a step makes; a step that damages an entry or cuts   *)
(* off a write marks itself in it.                                         *)
(***************************************************************************)
\* the record is that of a call that returned or raised
IsCall(c) == c.op \in FetchOps /\ c.out # Raise("killed")

\* the file a call addresses
FileOfCall(c) == filename(c.prefix, c.key)

\* C1 as stated: after a call with the cache on whose fetch returned text, the
\* next call with the same key and the cache on returns the identical text
\* without invoking the fetch.
C1_Idempotence ==
    [][(/\ IsCall(last) /\ last.cache /\ last.fetches = 1 /\ last.out.kind = "text"
        /\ IsCall(last') /\ last'.cache
        /\ last'.op = last.op /\ last'.key = last.key)
       => (last'.fetches = 0 /\ last'.out = last.out)]_vars

\* C2: a call with the cache off invokes the fetch exactly once, entry or no
\* entry, does not read the cache and leaves the whole store unchanged.
C2_Bypass ==
    [][(IsCall(last') /\ ~last'.cache)
       => (last'.fetches = 1 /\ ~last'.read /\ store' = store)]_vars

\* a call with the cache off has fetched although a readable entry exists
C2_Witness ==
    /\ IsCall(last) /\ ~last.cache /\ last.fetches = 1
    /\ last.out.kind = "text"
    /\ store[FileOfCall(last)].kind = "gz"
    /\ store[FileOfCall(last)].text # last.out.text

\* C3: when the fetch returns the absence marker (the word page answers 404),
\* the call with the cache on returns the marker and stores nothing, and the
\* next call with the cache on for that key invokes the fetch again.
C3_AbsenceNotCached ==
    [][/\ (/\ IsCall(last') /\ last'.cache /\ last'.fetches = 1
           /\ last'.op = "request_word" /\ last'.status = 404)
          => (last'.out = None /\ store' = store)
       /\ (/\ IsCall(last) /\ last.cache /\ last.out = None
           /\ IsCall(last') /\ last'.cache
           /\ last'.op = last.op /\ last'.key = last.key)
          => last'.fetches = 1]_vars

\* a word page was found absent with the cache on, and no entry exists for it
C3_Witness ==
    /\ IsCall(last) /\ last.cache /\ last.fetches = 1
    /\ last.op = "request_word" /\ last.status = 404
    /\ last.out = None
    /\ store[FileOfCall(last)] = Absent

\* C4 as stated: an entry is created or changed only by a call whose fetch
\* returned text, and then holds exactly that text; no other outcome creates
\* or changes an entry.
C4_OnlyPresentCached ==
    [][\A f \in FileNames :
           store'[f] # store[f] =>
               /\ IsCall(last') /\ last'.fetches = 1
               /\ last'.out.kind = "text"
               /\ f = FileOfCall(last')
               /\ store'[f] = Entry("gz", last'.out.text)]_vars

\* C5 as stated: with the cache on, a missing, unreadable, corrupt or
\* truncated entry is a miss: the call goes on to invoke the fetch and no
\* failure of the read reaches the caller.
C5_ReadFailureIsMiss ==
    [][(/\ IsCall(last') /\ last'.cache
        /\ store[FileOfCall(last')].kind \in
               {"absent", "unreadable", "badgzip", "badstream", "truncated"})
       => last'.fetches = 1]_vars

\* C9 as stated: on a non-success status request_autocomplete, called through
\* the cache wrapper with the cache on or off, returns an empty list and
\* raises nothing.
C9_AutocompleteDegrades ==
    [][(/\ IsCall(last') /\ last'.op = "request_autocomplete"
        /\ last'.fetches = 1 /\ last'.status >= 400)
       => last'.out = EmptyList]_vars

\* C11: the search-page fetch ignores the HTTP status: for every status it
\* returns the body of the response as text, never the absence marker and
\* never a failure.
C11_SearchIgnoresStatus ==
    (ret.done /\ arg.op = "request_search" /\ arg.resp.connected) =>
        /\ ret.out.kind = "text"
        /\ ret.out.text = arg.resp.body

\* the search-page fetch has answered an error status with the body as text
C11_Witness ==
    /\ ret.done
    /\ arg.op = "request_search"
    /\ arg.resp.status \in {404, 503}
    /\ ret.out.kind = "text"

\* the fetch function of the call c was invoked and raised
FetchRaised(c) ==
    /\ IsCall(c)
    /\ c.fetches = 1
    /\ call_func(c.op, Response(c.status # 0, c.status, <<>>)).kind = "raise"

C17_PartialIsMiss ==
    [][ (IsCall(last') /\ last'.cache /\ store[FileOfCall(last')].kind \in PartialKinds) =>
            /\ last'.fetches = 1
            /\ last'.out # Text(<<>>) ]_vars

\* C18: stored entries are permanent: no cached call (nor a write that is cut
\* off) deletes or changes an entry that reads as a hit; an entry is written
\* only where the read of that entry was a miss.
C18_EntriesPermanent ==
    [][ last'.op \in FetchOps =>
            \A f \in FileNames :
                /\ read_cache(store[f]).kind = "hit" => store'[f] = store[f]
                /\ store'[f] # store[f] => read_cache(store[f]).kind = "miss" ]_vars

\* a call with the cache off has fetched a text that differs from the stored
\* entry of its key, and the entry is still the old one
C18_Witness ==
    /\ IsCall(last)
    /\ ~last.cache
    /\ last.fetches = 1
    /\ last.out.kind = "text"
    /\ read_cache(store[FileOfCall(last)]).kind = "hit"
    /\ read_cache(store[FileOfCall(last)]).text # last.out.text

\* C19: a call of a cached fetcher for (prefix, key) writes at most the entry
\* addressed by that prefix and key: the entry of every other key and of every
\* other namespace is left as it was; and what a call served from the cache
\* returns is read from that one entry.
C19_Frame ==
    [][ IsCall(last') =>
            /\ \A a \in Addresses :
                  a # <<last'.prefix, last'.key>> =>
                      store'[filename(a[1], a[2])] = store[filename(a[1], a[2])]
            /\ last'.fetches = 0 =>
                  LET rd == read_cache(store[FileOfCall(last')])
                  IN  last'.out = IF rd.kind = "hit" THEN Text(rd.text) ELSE Raise(rd.exc) ]_vars

\* a call has written the entry of its key while the same key holds a
\* different entry in another namespace
C19_Witness ==
    /\ IsCall(last)
    /\ last.cache
    /\ last.fetches = 1
    /\ store[FileOfCall(last)].kind = "gz"
    /\ \E a \in Addresses :
          /\ a[1] # last.prefix
          /\ a[2] = last.key
          /\ store[filename(a[1], a[2])].kind = "gz"
          /\ store[filename(a[1], a[2])] # store[FileOfCall(last)]

(***************************************************************************)
(* Choosing the identifiers from a search response (search.py 114-120,     *)
(* 147-166).  A parsed result entry is a record of its text and of the     *)
(* href of its link; a parsed autocomplete item is its 'value' string.     *)
(***************************************************************************)
\* s.split(sep) of Python for a non-empty separator: cut at every occurrence
\* of sep, left to right; a text without sep is returned whole
RECURSIVE split(_, _)
split(s, sep) ==
    LET hits == {i \in 1..(Len(s) - Len(sep) + 1) : SubSeq(s, i, i + Len(sep) - 1) = sep}
    IN  IF hits = {} THEN <<s>>
        ELSE LET i == CHOOSE h \in hits : \A g \in hits : h <= g
             IN  <<SubSeq(s, 1, i - 1)>> \o split(SubSeq(s, i + Len(sep), Len(s)), sep)

whitespace == {9, 10, 13, 32}

RECURSIVE lstrip(_)
lstrip(s) == IF s # <<>> /\ Head(s) \in whitespace THEN lstrip(Tail(s)) ELSE s

RECURSIVE rstrip(_)
rstrip(s) ==
    IF s # <<>> /\ s[Len(s)] \in whitespace THEN rstrip(SubSeq(s, 1, Len(s) - 1)) ELSE s

\* clear_text of duden.common: the text without soft hyphens (U+00AD) and
\* without leading and trailing whitespace
clear_text(text) == lstrip(rstrip(SelectSeq(text, LAMBDA c : c # 173)))

\* a label read as one spelling, commas and all
get_search_link_variants_whole(link_text) == <<clear_text(link_text)>>

\* get_search_link_variants (search.py 114-120)
get_search_link_variants(link_text) == split(clear_text(link_text), <<44, 32>>)

\* x.split('/')[-1]
last_segment(s) == LET parts == split(s, <<47>>) IN parts[Len(parts)]

hexdigits == (48..57) \cup (65..70) \cup (97..102)

hexval(c) == IF c \in 48..57 THEN c - 48 ELSE IF c \in 65..70 THEN c - 55 ELSE c - 87

\* the byte a text starts with when it starts with a percent escape, else -1
escaped_byte(s) ==
    IF Len(s) >= 3 /\ s[1] = 37 /\ s[2] \in hexdigits /\ s[3] \in hexdigits
    THEN 16 * hexval(s[2]) + hexval(s[3])
    ELSE -1

\* urllib.parse.unquote: percent escapes become bytes that are decoded as
\* UTF-8 (one- and two-byte sequences; a byte that starts no such sequence
\* becomes U+FFFD); anything else is kept
RECURSIVE url_unquote(_)
url_unquote(s) ==
    IF s = <<>> THEN <<>>
    ELSE LET b1 == escaped_byte(s)
             b2 == escaped_byte(SubSeq(s, 4, Len(s)))
         IN  IF b1 = -1 THEN <<Head(s)>> \o url_unquote(Tail(s))
             ELSE IF b1 < 128 THEN <<b1>> \o url_unquote(SubSeq(s, 4, Len(s)))
             ELSE IF b1 \in 194..223 /\ b2 \in 128..191
                  THEN <<(b1 - 192) * 64 + (b2 - 128)>> \o url_unquote(SubSeq(s, 7, Len(s)))
             ELSE <<65533>> \o url_unquote(SubSeq(s, 4, Len(s)))

\* the autocomplete branch (search.py 151-154): one identifier per item
autocomplete_urlnames(response_json) ==
    [i \in 1..Len(response_json) |-> url_unquote(last_segment(response_json[i]))]

\* word in get_search_link_variants(link_text) (search.py 165)
IsVariant(word, link_text) ==
    \E i \in 1..Len(get_search_link_variants(link_text)) :
        get_search_link_variants(link_text)[i] = word

\* a scraped branch that falls back to the term itself when the page has no
\* result entry
scraped_urlnames_fallback(word, exact, definitions) ==
    IF definitions = <<>> THEN <<word>>
    ELSE LET kept == SelectSeq(definitions,
                               LAMBDA d : (~exact) \/ IsVariant(word, d.text))
         IN  [j \in 1..Len(kept) |-> last_segment(kept[j].href)]

\* the scraped branch (search.py 160-166): the identifiers of the entries
\* that pass the filter, in the order of the page
RECURSIVE scraped_urlnames(_, _, _)
scraped_urlnames(word, exact, definitions) ==
    IF definitions = <<>> THEN <<>>
    ELSE LET definition == Head(definitions)
         IN  (IF (~exact) \/ IsVariant(word, definition.text)
              THEN <<last_segment(definition.href)>>
              ELSE <<>>) \o scraped_urlnames(word, exact, Tail(definitions))

\* a search whose autocomplete branch filters on the exact flag as well
urlnames_of_exact_everywhere(word, exact, autocomplete, parsed) ==
    IF autocomplete
    THEN SelectSeq(autocomplete_urlnames(parsed), LAMBDA u : (~exact) \/ u = word)
    ELSE scraped_urlnames(word, exact, parsed)

\* the identifier list of search (search.py 147-166) for a parsed response
urlnames_of(word, exact, autocomplete, parsed) ==
    IF autocomplete THEN autocomplete_urlnames(parsed)
    ELSE scraped_urlnames(word, exact, parsed)

(***************************************************************************)
(* The selection alone: a term, the flags and a parsed response are drawn, *)
(* and one step computes the identifier list.                              *)
(***************************************************************************)
\* sample texts as sequences of code points
\* 'laufen'
W_laufen == <<108, 97, 117, 102, 101, 110>>

\* 'Lauf'
W_Lauf == <<76, 97, 117, 102>>

\* 'Laufen'
W_Laufen == <<76, 97, 117, 102, 101, 110>>

\* 'Laufen, laufen'
L_Laufen_laufen == <<76, 97, 117, 102, 101, 110, 44, 32, 108, 97, 117, 102, 101, 110>>

\* ' lau<U+00AD>fen\n'
L_lau_fen == <<32, 108, 97, 117, 173, 102, 101, 110, 10>>

\* 'Lauf, Laufen'
L_Lauf_Laufen == <<76, 97, 117, 102, 44, 32, 76, 97, 117, 102, 101, 110>>

\* '/rechtschreibung/laufen'
H_laufen == <<47, 114, 101, 99, 104, 116, 115, 99, 104, 114, 101, 105, 98, 117, 110, 103, 47, 108, 97, 117, 102, 101, 110>>

\* '/rechtschreibung/Lauf'
H_Lauf == <<47, 114, 101, 99, 104, 116, 115, 99, 104, 114, 101, 105, 98, 117, 110, 103, 47, 76, 97, 117, 102>>

\* '/rechtschreibung/laufen_Sport'
H_laufen_sport == <<47, 114, 101, 99, 104, 116, 115, 99, 104, 114, 101, 105, 98, 117, 110, 103, 47, 108, 97, 117, 102, 101, 110, 95, 83, 112, 111, 114, 116>>

\* '/rechtschreibung/l%C3%A4ufig'
H_laeufig == <<47, 114, 101, 99, 104, 116, 115, 99, 104, 114, 101, 105, 98, 117, 110, 103, 47, 108, 37, 67, 51, 37, 65, 52, 117, 102, 105, 103>>

MaxEntries == 2

\* 'laufen', 'Lauf', 'Laufen'
SelectWords == {W_laufen, W_Lauf, W_Laufen}

\* result entries: 'Laufen, laufen', 'Lauf', ' lau\xadfen\n' and 'Lauf, Laufen'
SelectEntries ==
    {[text |-> L_Laufen_laufen, href |-> H_laufen],
     [text |-> W_Lauf, href |-> H_Lauf],
     [text |-> L_lau_fen, href |-> H_laufen_sport],
     [text |-> L_Lauf_Laufen, href |-> H_Lauf]}

\* autocomplete values: '/rechtschreibung/laufen', '/rechtschreibung/l%C3%A4ufig', 'Lauf'
SelectValues == {H_laufen, H_laeufig, W_Lauf}

SelectInputs ==
    [word : SelectWords, exact : BOOLEAN, autocomplete : {FALSE},
     parsed : StringsUpTo(SelectEntries, MaxEntries)]
    \cup
    [word : SelectWords, exact : BOOLEAN, autocomplete : {TRUE},
     parsed : StringsUpTo(SelectValues, MaxEntries)]

NotSelected == [done |-> FALSE, out |-> <<>>]

InitSelect ==
    /\ store = [f \in FileNames |-> Absent]
    /\ last = NoCall
    /\ arg \in SelectInputs
    /\ ret = NotSelected

\* the loop of search over the parsed response (search.py 147-166)
do_select ==
    /\ ~ret.done
    /\ ret' = [done |-> TRUE,
               out |-> urlnames_of(arg.word, arg.exact, arg.autocomplete, arg.parsed)]
    /\ UNCHANGED <<store, last, arg>>

SpecSelect == InitSelect /\ [][do_select]_vars

\* the term is one of the alternatives of the label: the cleaned label is the
\* term, or starts with the term and ', ', or ends with ', ' and the term, or
\* holds the term between two ', '; a term that holds ', ' is never one
IsAlternative(word, label) ==
    LET t == clear_text(label)
        sep == <<44, 32>>
        holds(s, p) == \E i \in 1..(Len(s) - Len(p) + 1) : SubSeq(s, i, i + Len(p) - 1) = p
        starts(s, p) == Len(p) <= Len(s) /\ SubSeq(s, 1, Len(p)) = p
        ends(s, p) == Len(p) <= Len(s) /\ SubSeq(s, Len(s) - Len(p) + 1, Len(s)) = p
    IN  /\ ~holds(word, sep)
        /\ \/ t = word
           \/ starts(t, word \o sep)
           \/ ends(t, sep \o word)
           \/ holds(t, sep \o word \o sep)

\* C12: in scraped mode with exact on, the identifier of an entry is kept
\* exactly when the term is one of the alternatives of the cleaned label split
\* on ', '; with exact off every entry is kept; the kept identifiers are in the
\* order of the page.
C12_ExactFilter ==
    (ret.done /\ ~arg.autocomplete) =>
        LET n == Len(arg.parsed)
            kept == SelectSeq([i \in 1..n |-> i],
                              LAMBDA i : (~arg.exact) \/ IsAlternative(arg.word, arg.parsed[i].text))
        IN  ret.out = [j \in 1..Len(kept) |-> last_segment(arg.parsed[kept[j]].href)]

\* exact search for 'laufen' over the entries 'Lauf' and 'Laufen, laufen' has
\* dropped the first and kept the second
C12_Witness ==
    /\ ret.done
    /\ ~arg.autocomplete
    /\ arg.exact
    /\ arg.word = W_laufen
    /\ Len(arg.parsed) = 2
    /\ arg.parsed[1].text = W_Lauf
    /\ arg.parsed[2].text = L_Laufen_laufen
    /\ ret.out = <<W_laufen>>

\* C13: autocomplete mode ignores the exact flag: for the same autocomplete
\* response the identifier list is the same, element by element, with exact on
\* and with exact off; it is the decoded last path segment of every item.
C13_AutocompleteIgnoresExact ==
    (ret.done /\ arg.autocomplete) =>
        /\ ret.out = urlnames_of(arg.word, ~arg.exact, TRUE, arg.parsed)
        /\ Len(ret.out) = Len(arg.parsed)

\* an exact autocomplete search for 'laufen' has returned 'läufig' as well
C13_Witness ==
    /\ ret.done
    /\ arg.autocomplete
    /\ arg.exact
    /\ arg.word = W_laufen
    /\ arg.parsed = <<H_laufen, H_laeufig>>
    /\ ret.out = <<W_laufen, <<108, 228, 117, 102, 105, 103>> >>

(***************************************************************************)
(* search and get (search.py 91-100, 143-170) over the cache store.        *)
(***************************************************************************)
\* the first position from which p occurs in s, 0 when there is none
find(s, p) ==
    LET hits == {i \in 1..(Len(s) - Len(p) + 1) :
                    s[i] = p[1] /\ SubSeq(s, i, i + Len(p) - 1) = p}
    IN  IF hits = {} THEN 0 ELSE CHOOSE h \in hits : \A g \in hits : h <= g

\* '<h2 class="vignette__title">' and '</h2>'
H2Open == <<60, 104, 50, 32, 99, 108, 97, 115, 115, 61, 34, 118, 105, 103, 110, 101, 116, 116, 101, 95, 95, 116, 105, 116, 108, 101, 34, 62>>

H2Close == <<60, 47, 104, 50, 62>>

\* 'href="' and '"value":"'
HrefOpen == <<104, 114, 101, 102, 61, 34>>

ValueOpen == <<34, 118, 97, 108, 117, 101, 34, 58, 34>>

\* the text after the opening p up to the next double quote
quoted_after(s, p) ==
    LET i == find(s, p)
        rest == SubSeq(s, i + Len(p), Len(s))
    IN  SubSeq(rest, 1, find(rest, <<34>>) - 1)

\* element.text: the characters of the element that are outside its tags
RECURSIVE tag_text(_)
tag_text(s) ==
    IF s = <<>> THEN <<>>
    ELSE IF Head(s) = 60
         THEN LET j == find(s, <<62>>)
              IN  IF j = 0 THEN <<>> ELSE tag_text(SubSeq(s, j + 1, Len(s)))
         ELSE <<Head(s)>> \o tag_text(Tail(s))

\* BeautifulSoup(text, 'html.parser').find_all('h2', class_='vignette__title')
\* (search.py 157-158): every result entry with its text and the href of its
\* link, in the order of the page
RECURSIVE find_all(_)
find_all(text) ==
    LET i == find(text, H2Open)
    IN  IF i = 0 THEN <<>>
        ELSE LET rest == SubSeq(text, i + Len(H2Open), Len(text))
                 j == find(rest, H2Close)
                 inner == IF j = 0 THEN rest ELSE SubSeq(rest, 1, j - 1)
                 after == IF j = 0 THEN <<>> ELSE SubSeq(rest, j + Len(H2Close), Len(rest))
             IN  <<[text |-> tag_text(inner), href |-> quoted_after(inner, HrefOpen)]>>
                 \o find_all(after)

\* the 'value' strings of the items of a JSON array of objects
RECURSIVE json_values(_)
json_values(text) ==
    LET i == find(text, ValueOpen)
    IN  IF i = 0 THEN <<>>
        ELSE LET rest == SubSeq(text, i + Len(ValueOpen), Len(text))
                 j == find(rest, <<34>>)
             IN  <<SubSeq(rest, 1, j - 1)>> \o json_values(SubSeq(rest, j + 1, Len(rest)))

\* json.loads(response_text) (search.py 149): a value that is no text raises
\* TypeError, a text that is no JSON array raises JSONDecodeError
json_loads(response) ==
    IF response.kind # "text" THEN [ok |-> FALSE, exc |-> "TypeError", items |-> <<>>]
    ELSE IF Len(response.text) >= 2 /\ Head(response.text) = 91
            /\ response.text[Len(response.text)] = 93
    THEN [ok |-> TRUE, exc |-> "", items |-> json_values(response.text)]
    ELSE [ok |-> FALSE, exc |-> "JSONDecodeError", items |-> <<>>]

\* DudenWord(soup) of duden.word: the record built from a word page
DudenWord(soup) == Outcome("word", soup, "")

\* a get that asks for the word page with the default cache flag
get_default_cache(st, word, cache, resp) ==
    LET r == function_wrapper(st, PrefixWord, "request_word", word, TRUE, resp)
    IN  [store |-> r.store,
         call |-> CallRecord("request_word", PrefixWord, word, TRUE,
                             IF r.fetches = 0 THEN ConnectionFailed ELSE resp, r),
         out |-> IF r.out.kind = "text" THEN DudenWord(r.out.text) ELSE r.out]

\* get(word, cache) (search.py 91-100): None for an absent word, else the
\* record of the page; a failure of the fetch comes out as it is
get(st, word, cache, resp) ==
    LET r == function_wrapper(st, PrefixWord, "request_word", word, cache, resp)
    IN  [store |-> r.store,
         call |-> CallRecord("request_word", PrefixWord, word, cache,
                             IF r.fetches = 0 THEN ConnectionFailed ELSE resp, r),
         out |-> IF r.out.kind = "text" THEN DudenWord(r.out.text) ELSE r.out]

\* a word list that leaves the absent words out
RECURSIVE get_all_present(_, _, _, _)
get_all_present(st, urlnames, cache, wresp) ==
    IF urlnames = <<>> THEN [store |-> st, items |-> <<>>, calls |-> <<>>, exc |-> ""]
    ELSE LET g == get(st, Head(urlnames), cache, wresp[Head(urlnames)])
         IN  IF g.out.kind = "raise"
             THEN [store |-> g.store, items |-> <<>>, calls |-> <<g.call>>, exc |-> g.out.exc]
             ELSE LET rest == get_all_present(g.store, Tail(urlnames), cache, wresp)
                  IN  [store |-> rest.store,
                       items |-> (IF g.out = None THEN <<>> ELSE <<g.out>>) \o rest.items,
                       calls |-> <<g.call>> \o rest.calls,
                       exc |-> rest.exc]

\* [get(urlname, cache=cache) for urlname in urlnames] (search.py 170): the
\* words are loaded one after the other; the first failure ends the list
RECURSIVE get_all(_, _, _, _)
get_all(st, urlnames, cache, wresp) ==
    IF urlnames = <<>> THEN [store |-> st, items |-> <<>>, calls |-> <<>>, exc |-> ""]
    ELSE LET g == get(st, Head(urlnames), cache, wresp[Head(urlnames)])
         IN  IF g.out.kind = "raise"
             THEN [store |-> g.store, items |-> <<>>, calls |-> <<g.call>>, exc |-> g.out.exc]
             ELSE LET rest == get_all(g.store, Tail(urlnames), cache, wresp)
                  IN  [store |-> rest.store,
                       items |-> <<g.out>> \o rest.items,
                       calls |-> <<g.call>> \o rest.calls,
                       exc |-> rest.exc]

\* what a search gives back: a list, or a failure
ListOf(items) == [kind |-> "list", items |-> items, exc |-> ""]

Failed(exc) == [kind |-> "raise", items |-> <<>>, exc |-> exc]

Searched(st, calls, parsed, urlnames, out) ==
    [store |-> st, calls |-> calls, parsed |-> parsed, urlnames |-> urlnames, out |-> out]

\* search(word, exact, return_words, cache, autocomplete) (search.py 143-170)
search_run(st, word, exact, return_words, cache, autocomplete, sresp, wresp) ==
    LET op == IF autocomplete THEN "request_autocomplete" ELSE "request_search"
        prefix == IF autocomplete THEN PrefixAutocomplete ELSE PrefixSearch
        r == function_wrapper(st, prefix, op, word, cache, sresp)
        c == CallRecord(op, prefix, word, cache,
                        IF r.fetches = 0 THEN ConnectionFailed ELSE sresp, r)
        parsed == IF autocomplete THEN json_loads(r.out)
                  ELSE [ok |-> TRUE, exc |-> "", items |-> find_all(r.out.text)]
    IN  IF r.out.kind = "raise" THEN Searched(r.store, <<c>>, <<>>, <<>>, Failed(r.out.exc))
        ELSE IF ~parsed.ok THEN Searched(r.store, <<c>>, <<>>, <<>>, Failed(parsed.exc))
        ELSE LET urlnames == urlnames_of(word, exact, autocomplete, parsed.items)
             IN  IF ~return_words
                 THEN Searched(r.store, <<c>>, parsed.items, urlnames, ListOf(urlnames))
                 ELSE LET words == get_all(r.store, urlnames, cache, wresp)
                      IN  Searched(words.store, <<c>> \o words.calls, parsed.items, urlnames,
                                   IF words.exc # "" THEN Failed(words.exc)
                                   ELSE ListOf(words.items))

\* a search page with one result entry:
\* '<h2 class="vignette__title"><a href="/r/ä">ä</a></h2>'
PageOne ==
    <<60, 104, 50, 32, 99, 108, 97, 115, 115, 61, 34, 118, 105, 103, 110,
      101, 116, 116, 101, 95, 95, 116, 105, 116, 108, 101, 34, 62, 60, 97,
      32, 104, 114, 101, 102, 61, 34, 47, 114, 47, 228, 34, 62, 228, 60, 47,
      97, 62, 60, 47, 104, 50, 62>>

\* an autocomplete response with two items:
\* '[{"value":"/r/a"},{"value":"/r/%C3%A4"}]'
JsonTwo ==
    <<91, 123, 34, 118, 97, 108, 117, 101, 34, 58, 34, 47, 114, 47, 97, 34,
      125, 44, 123, 34, 118, 97, 108, 117, 101, 34, 58, 34, 47, 114, 47, 37,
      67, 51, 37, 65, 52, 34, 125, 93>>

\* '[]'
JsonNone == <<91, 93>>

\* what the network may answer to the fetch of a search
SearchResponses(autocomplete) ==
    {Response(TRUE, 200, b) :
        b \in IF autocomplete THEN {JsonNone, JsonTwo} ELSE {<<120>>, PageOne}}
    \cup {Response(TRUE, 500, <<120>>), ConnectionFailed}

\* what the network may answer to the fetch of a word page
WordResponses == {Response(TRUE, 200, <<120>>), Response(TRUE, 404, <<120>>), ConnectionFailed}

\* the answers that matter to one search: none to a search served from the
\* cache, none for the word pages of a search that loads no words
SearchAnswers(word, cache, autocomplete) ==
    IF cache /\ read_cache(store[filename(IF autocomplete THEN PrefixAutocomplete
                                          ELSE PrefixSearch, word)]).kind # "miss"
    THEN {ConnectionFailed}
    ELSE SearchResponses(autocomplete)

WordAnswers(return_words) ==
    IF return_words THEN [Keys -> WordResponses] ELSE {[k \in Keys |-> ConnectionFailed]}

search ==
    \E word \in Terms, exact \in BOOLEAN, return_words \in BOOLEAN, cache \in BOOLEAN,
       autocomplete \in BOOLEAN :
        \E sresp \in SearchAnswers(word, cache, autocomplete),
           wresp \in WordAnswers(return_words) :
            \E r \in {search_run(store, word, exact, return_words, cache, autocomplete,
                                 sresp, wresp)} :
                /\ store' = r.store
                /\ ret' = [done |-> TRUE, word |-> word, exact |-> exact,
                           return_words |-> return_words, cache |-> cache,
                           autocomplete |-> autocomplete, calls |-> r.calls,
                           parsed |-> r.parsed, urlnames |-> r.urlnames, out |-> r.out]
                /\ UNCHANGED <<last, arg>>

SpecSearch == Init /\ [][search]_vars

\* C14: a search that returns gives, with return_words off, the identifier
\* list as it is; otherwise one element per identifier, in the order of the
\* identifiers, each the outcome of get for that identifier: None where the
\* word page was absent, kept in its position, and the word record elsewhere.
C14_ResultShape ==
    (ret.done /\ ret.out.kind = "list") =>
        IF ~ret.return_words
        THEN /\ ret.out.items = ret.urlnames
             /\ Len(ret.calls) = 1
        ELSE /\ Len(ret.out.items) = Len(ret.urlnames)
             /\ Len(ret.calls) = 1 + Len(ret.urlnames)
             /\ \A i \in 1..Len(ret.urlnames) :
                   LET c == ret.calls[i + 1]
                   IN  /\ c.op = "request_word"
                       /\ c.key = ret.urlnames[i]
                       /\ c.out.kind \in {"none", "text"}
                       /\ c.out.kind = "none" => ret.out.items[i] = None
                       /\ c.out.kind = "text" => ret.out.items[i] = DudenWord(c.out.text)

\* a search has returned None for its first identifier and a word record for
\* its second
C14_Witness ==
    /\ ret.done
    /\ ret.return_words
    /\ ret.out.kind = "list"
    /\ ret.urlnames = <<<<97>>, <<228>>>>
    /\ Len(ret.out.items) = 2
    /\ ret.out.items[1] = None
    /\ ret.out.items[2].kind = "word"

\* C15: when the markup of the search page holds no result entry, the scraped
\* search returns the empty list, whatever exact and return_words are, and
\* loads no word page.
C15_NoEntries ==
    (/\ ret.done
     /\ ~ret.autocomplete
     /\ ret.calls[1].out.kind = "text"
     /\ find(ret.calls[1].out.text, H2Open) = 0) =>
        /\ ret.out = ListOf(<<>>)
        /\ Len(ret.calls) = 1

\* a search for words, exact off, has fetched a page without result entries
\* and returned the empty list
C15_Witness ==
    /\ ret.done
    /\ ~ret.autocomplete
    /\ ret.return_words
    /\ ~ret.exact
    /\ ret.calls[1].fetches = 1
    /\ ret.calls[1].out = Text(<<120>>)
    /\ ret.out = ListOf(<<>>)

\* C20: the cache flag of a search governs every fetch it triggers: with the
\* cache off, the search fetch and every word-page fetch are live, none reads
\* the cache, and the store is left as it was; with the cache on, the search
\* fetch and every word-page fetch read the cache first and go to the network
\* only on a miss.
C20_CacheFlagGoverns ==
    [][ ret'.done =>
          /\ \A i \in 1..Len(ret'.calls) :
                LET c == ret'.calls[i]
                IN  /\ c.cache = ret'.cache
                    /\ c.read = ret'.cache
                    /\ ~ret'.cache => c.fetches = 1
                    /\ ret'.cache =>
                          (c.fetches = 1 <=> read_cache(store[FileOfCall(c)]).kind = "miss")
          /\ ~ret'.cache => store' = store ]_vars

\* a search with the cache off has fetched the autocomplete response and two
\* word pages, built two word records, and the store holds no entry
C20_Witness ==
    /\ ret.done
    /\ ~ret.cache
    /\ Len(ret.calls) = 3
    /\ \A i \in 1..3 : ret.calls[i].fetches = 1 /\ ~ret.calls[i].read
    /\ ret.out.kind = "list"
    /\ \A i \in 1..2 : ret.out.items[i].kind = "word"
    /\ \A f \in FileNames : store[f] = Absent

====
